---- MODULE Spec2Model ----
(***************************************************************************)
(* Model of the two revisions of the Whisper speech-to-text Streamlit      *)
(* script: src/record.py ("record") and src/recordstreamlit.py             *)
(* ("recordstreamlit").  A Streamlit script is executed top to bottom on   *)
(* every user interaction (a "run"); the process keeps the file system     *)
(* and the st.cache_resource cache between runs.  Each handler of the      *)
(* script is one action; widget values and the behaviour of the external   *)
(* programs (ffmpeg, yt-dlp, whisper) are inputs drawn with \E.            *)
(***************************************************************************)
EXTENDS Integers, Sequences, FiniteSets, TLC

\* ------------------------------------------------------------------ bounds
MaxRuns == 2          \* script runs (user interactions) per behaviour
MaxFrames == 1        \* audio frames returned by get_frames
MaxStderrLen == 1     \* bytes of diagnostic output of an external process
MaxTextLen == 2       \* characters of the text the model returns

\* ------------------------------------------------------- program constants
Revisions == {"record", "recordstreamlit"}
\* the selectbox values the inputs are drawn from (for the language, the
\* first three of the list)
Languages == {"auto", "en", "hi"}
Sizes == {"base", "small", "medium"}

\* ----------------------------------------------------------------- helpers
\* sequences over S of length at most n
SeqsUpTo(S, n) == UNION {[1..k -> S] : k \in 0..n}

\* bytes an external process may write to stderr: an ASCII letter and a byte
\* that is not valid UTF-8 on its own
StderrSet == SeqsUpTo({101, 255}, MaxStderrLen)

Whitespace == {" "}
Texts == SeqsUpTo({" ", "a"}, MaxTextLen)

\* str.strip(): drop leading and trailing whitespace
RECURSIVE lstrip(_)
lstrip(s) == IF s # <<>> /\ Head(s) \in Whitespace THEN lstrip(Tail(s)) ELSE s
RECURSIVE rstrip(_)
rstrip(s) ==
    IF s # <<>> /\ s[Len(s)] \in Whitespace THEN rstrip(SubSeq(s, 1, Len(s) - 1)) ELSE s
strip(s) == rstrip(lstrip(s))

\* bytes.decode(): strict UTF-8 decoding raises on an invalid byte
DecodeRaises(b) == \E i \in 1..Len(b) : b[i] >= 128
\* bytes.decode(errors='ignore'): invalid bytes are dropped
RECURSIVE DecodeIgnore(_)
DecodeIgnore(b) ==
    IF b = <<>> THEN <<>>
    ELSE IF Head(b) >= 128 THEN DecodeIgnore(Tail(b))
    ELSE <<Head(b)>> \o DecodeIgnore(Tail(b))

\* exceptions: type, literal message prefix, variable part of the message
None == [type |-> "None", prefix |-> "", detail |-> <<>>]
Exc(t, p, d) == [type |-> t, prefix |-> p, detail |-> d]
UnicodeDecodeError == Exc("UnicodeDecodeError", "'utf-8' codec can't decode byte", <<>>)
FfmpegNotFound == Exc("FileNotFoundError", "No such file or directory: 'ffmpeg'", <<>>)
NameErrorWavPath == Exc("NameError", "name 'wav_path' is not defined", <<>>)
LoadError == Exc("RuntimeError", "whisper.load_model failed", <<>>)
ModelError == Exc("RuntimeError", "model.transcribe failed", <<>>)
RenderError == Exc("StreamlitAPIException", "render failed", <<>>)
FrameError == Exc("ValueError", "frame.to_ndarray failed", <<>>)
ConcatError == Exc("ValueError", "np.concatenate failed", <<>>)
TmpFileError == Exc("OSError", "NamedTemporaryFile failed", <<>>)
WriteError == Exc("RuntimeError", "sf.write failed", <<>>)

\* UI elements: the streamlit call, its literal text, the formatted exception
Msg(w, m, e) == [w |-> w, msg |-> m, e |-> [prefix |-> e.prefix, detail |-> e.detail]]
TextArea(t) == [w |-> "text_area", msg |-> "Transcribed Text", text |-> t]

\* files
CookiesTxt == <<0, "cwd", "cookies.txt">>

VARIABLES
    rev,            \* which revision of the script runs in this process
    ffmpegPresent,  \* is the ffmpeg binary on PATH
    run,            \* number of the current script run
    pc,             \* position of the script run
    startupError,   \* st.error shown by check_ffmpeg in this run
    language,       \* sidebar selectbox
    model_size,     \* sidebar selectbox
    rendered,       \* tabs whose widgets were created in this run
    cookieUploaded, \* a cookie file was uploaded in this run
    audio_path,     \* script-level name audio_path ("unbound" or a file)
    files,          \* files on disk
    cache,          \* st.cache_resource of load_whisper_model: size -> instance (0: absent)
    loads,          \* size -> number of times whisper.load_model returned a model
    widget,         \* value of the widget that guards the next handler
    video_url,      \* st.text_input of tab3 is non-empty
    req             \* the request handled by the last handler

vars == <<rev, ffmpegPresent, run, pc, startupError, language, model_size, rendered,
          cookieUploaded, audio_path, files, cache, loads, widget, video_url, req>>

Unbound == <<0, "unbound", "">>
Tmp(tab, suffix) == <<run, tab, suffix>>

\* a handler that did not run a request
Idle(tab) == [tab |-> tab, active |-> FALSE, shown |-> <<>>, calls |-> <<>>,
              tmp |-> {}, exc |-> None]
Request(tab, shown, calls, tmp, exc) ==
    [tab |-> tab, active |-> TRUE, shown |-> shown, calls |-> calls, tmp |-> tmp, exc |-> exc]

Init ==
    /\ rev \in Revisions
    /\ ffmpegPresent \in BOOLEAN
    /\ run = 1
    /\ pc = "check_ffmpeg"
    /\ startupError = FALSE
    /\ language = "auto"
    /\ model_size = "small"
    /\ rendered = {}
    /\ cookieUploaded = FALSE
    /\ audio_path = Unbound
    /\ files = {}
    /\ cache = [s \in Sizes |-> 0]
    /\ loads = [s \in Sizes |-> 0]
    /\ widget = FALSE
    /\ video_url = FALSE
    /\ req = Idle("none")

\* ------------------------------------------------------------ check_ffmpeg
\* subprocess.run(["ffmpeg","-version"]) raises FileNotFoundError when the
\* binary is missing; the except clause reports it and the function returns.
check_ffmpeg_uncaught(present) ==
    IF present THEN [error |-> FALSE, raised |-> FALSE]
    ELSE [error |-> FALSE, raised |-> TRUE]

check_ffmpeg(present) ==
    IF present THEN [error |-> FALSE, raised |-> FALSE]
    ELSE [error |-> TRUE, raised |-> FALSE]

CheckFfmpeg ==
    /\ pc = "check_ffmpeg"
    /\ \E r \in {check_ffmpeg(ffmpegPresent)} :
          /\ startupError' = r.error
          /\ pc' = IF r.raised THEN "crashed" ELSE "sidebar"
          /\ req' = IF r.raised THEN Request("startup", <<>>, <<>>, {}, FfmpegNotFound)
                    ELSE Idle("startup")
    /\ UNCHANGED <<rev, ffmpegPresent, run, language, model_size, rendered,
                   cookieUploaded, audio_path, files, cache, loads, widget, video_url>>

\* ----------------------------------------------------------------- sidebar
Sidebar ==
    /\ pc = "sidebar"
    /\ language' \in Languages
    /\ model_size' \in Sizes
    /\ pc' = "tab1"
    /\ UNCHANGED <<rev, ffmpegPresent, run, startupError, rendered, cookieUploaded,
                   audio_path, files, cache, loads, widget, video_url, req>>

\* ------------------------------------------------------ load_whisper_model
\* @st.cache_resource: the function body runs only when no entry for the
\* argument exists; a returned model is stored, an exception stores nothing.
load_whisper_model_uncached(size, c, l, loadOk) ==
    IF loadOk
    THEN [raised |-> FALSE, model |-> <<size, l[size] + 1>>,
          cache |-> [c EXCEPT ![size] = l[size] + 1],
          loads |-> [l EXCEPT ![size] = l[size] + 1]]
    ELSE [raised |-> TRUE, model |-> <<size, 0>>, cache |-> c, loads |-> l]

load_whisper_model(size, c, l, loadOk) ==
    IF c[size] # 0
    THEN [raised |-> FALSE, model |-> <<size, c[size]>>, cache |-> c, loads |-> l]
    ELSE IF loadOk
    THEN [raised |-> FALSE, model |-> <<size, l[size] + 1>>,
          cache |-> [c EXCEPT ![size] = l[size] + 1],
          loads |-> [l EXCEPT ![size] = l[size] + 1]]
    ELSE [raised |-> TRUE, model |-> <<size, 0>>, cache |-> c, loads |-> l]

\* -------------------------------------------------------- transcribe_audio
\* options as the set of (key, value) pairs of the dict
Options_always(lang) == {<<"language", lang>>}

Options(lang) == IF lang # "auto" THEN {<<"language", lang>>} ELSE {}

\* model = load_whisper_model(...); return model.transcribe(path, **options)
\* fault: "load" whisper.load_model raises, "model" model.transcribe raises
Transcribed(m, path, options, fault, text) ==
    IF m.raised
    THEN [raised |-> TRUE, exc |-> LoadError, text |-> <<>>, calls |-> <<>>,
          cache |-> m.cache, loads |-> m.loads]
    ELSE IF fault = "model"
    THEN [raised |-> TRUE, exc |-> ModelError, text |-> <<>>,
          calls |-> <<[op |-> "transcribe", model |-> m.model, path |-> path,
                       options |-> options, raised |-> TRUE, text |-> <<>>]>>,
          cache |-> m.cache, loads |-> m.loads]
    ELSE [raised |-> FALSE, exc |-> None, text |-> text,
          calls |-> <<[op |-> "transcribe", model |-> m.model, path |-> path,
                       options |-> options, raised |-> FALSE, text |-> text]>>,
          cache |-> m.cache, loads |-> m.loads]

transcribe(size, path, lang, fault, text) ==
    Transcribed(load_whisper_model(size, cache, loads, fault # "load"),
                path, Options(lang), fault, text)

\* record.py: transcribe_audio(path, lang, model_size)
transcribe_audio(path, lang, size, fault, text) == transcribe(size, path, lang, fault, text)
\* recordstreamlit.py: transcribe_audio(path, lang) reads the global model_size
transcribe_audio_global(path, lang, fault, text) ==
    transcribe(model_size, path, lang, fault, text)

TranscribeAudio(path, fault, text) ==
    IF rev = "record" THEN transcribe_audio(path, language, model_size, fault, text)
    ELSE transcribe_audio_global(path, language, fault, text)

\* -------------------------------------------------- rendering of a result
\* record.py: st.success then st.text_area(result.get("text", ""))
RenderRecord(okMsg, text, fault) ==
    IF fault = "render"
    THEN [shown |-> <<Msg("success", okMsg, None)>>, exc |-> RenderError]
    ELSE [shown |-> <<Msg("success", okMsg, None), TextArea(text)>>, exc |-> None]

\* recordstreamlit.py: if result["text"].strip(): success + text_area, else warning
RenderStreamlit(okMsg, text, fault) ==
    IF strip(text) # <<>>
    THEN IF fault = "render"
         THEN [shown |-> <<Msg("success", okMsg, None)>>, exc |-> RenderError]
         ELSE [shown |-> <<Msg("success", okMsg, None), TextArea(text)>>, exc |-> None]
    ELSE IF fault = "render"
         THEN [shown |-> <<>>, exc |-> RenderError]
         ELSE [shown |-> <<Msg("warning", "No speech detected.", None)>>, exc |-> None]

Render(okMsg, text, fault) ==
    IF rev = "record" THEN RenderRecord(okMsg, text, fault)
    ELSE RenderStreamlit(okMsg, text, fault)

\* except Exception as e: st.error(f"{failMsg}{e}")
Except(r, failMsg) ==
    IF r.exc # None THEN Append(r.shown, Msg("error", failMsg, r.exc)) ELSE r.shown

\* what whisper does in one call of transcribe_audio: load_model raises,
\* transcribe raises, or a text is returned (and rendering it may raise)
ModelOutcomes ==
    {[fault |-> f, text |-> <<>>] : f \in {"load", "model"}}
    \cup {[fault |-> f, text |-> t] : f \in {"none", "render"}, t \in Texts}

\* ------------------------------------------------------ tab1: audio upload
\* with tab1: audio_file = st.file_uploader(...)
Tab1Upload ==
    /\ pc = "tab1"
    /\ rendered' = rendered \cup {"tab1"}
    /\ widget' \in BOOLEAN
    /\ req' = Idle("tab1")
    /\ pc' = "tab1_handler"
    /\ UNCHANGED <<rev, ffmpegPresent, run, startupError, language, model_size,
                   cookieUploaded, audio_path, files, cache, loads, video_url>>

\* if audio_file: same structure in both revisions: the temporary file is
\* written before the try; try: transcribe + render; except: st.error;
\* finally: os.remove(tmp_path).
AudioUploadTry(tmp_path, t, fault) ==
    [files |-> (files \cup {tmp_path}) \ {tmp_path},
     cache |-> t.cache, loads |-> t.loads,
     req |-> Request("tab1",
                     Except(IF t.raised THEN [shown |-> <<>>, exc |-> t.exc]
                            ELSE Render("Transcription complete!", t.text, fault),
                            "Transcription failed: "),
                     t.calls, {tmp_path}, None)]

AudioUpload(m) ==
    AudioUploadTry(Tmp("tab1", ".mp3"),
                   TranscribeAudio(Tmp("tab1", ".mp3"), m.fault, m.text), m.fault)

Tab1Transcribe ==
    /\ pc = "tab1_handler"
    /\ IF ~widget
       THEN UNCHANGED <<files, cache, loads, req>>
       ELSE \E m \in ModelOutcomes : \E h \in {AudioUpload(m)} :
               /\ files' = h.files
               /\ cache' = h.cache
               /\ loads' = h.loads
               /\ req' = h.req
    /\ pc' = "tab2"
    /\ UNCHANGED <<rev, ffmpegPresent, run, startupError, language, model_size, rendered,
                   cookieUploaded, audio_path, widget, video_url>>

\* --------------------------------------------------- tab2: live capture
\* with tab2: webrtc_streamer(...); if webrtc_ctx.state.playing: if st.button(...)
Tab2Stream ==
    /\ pc = "tab2"
    /\ rendered' = rendered \cup {"tab2"}
    /\ \E playing \in BOOLEAN, button \in BOOLEAN : widget' = (playing /\ button)
    /\ req' = Idle("tab2")
    /\ pc' = "tab2_handler"
    /\ UNCHANGED <<rev, ffmpegPresent, run, startupError, language, model_size,
                   cookieUploaded, audio_path, files, cache, loads, video_url>>

\* a step before the transcription raises, or the transcription is reached
Tab2Outcomes ==
    {[fault |-> f, text |-> <<>>] : f \in {"convert", "concat", "tmpfile", "sfwrite"}}
    \cup ModelOutcomes
NextAfterTab2 == IF rev = "record" THEN "tab3_cookies" ELSE "tab3"

\* exception raised by the steps that precede the transcription
PrepExc(fault) ==
    CASE fault = "convert" -> FrameError
      [] fault = "concat" -> ConcatError
      [] fault = "tmpfile" -> TmpFileError
      [] fault = "sfwrite" -> WriteError
      [] OTHER -> None

\* record.py: everything from the frame conversion on is inside the try; the
\* finally tests os.path.exists(wav_path), a name bound only after the
\* temporary file was created (bound).
LiveCaptureRecordTry(wav_path, bound, prep, t, fault) ==
    [files |-> IF bound THEN (files \cup {wav_path}) \ {wav_path} ELSE files,
     cache |-> IF prep # None THEN cache ELSE t.cache,
     loads |-> IF prep # None THEN loads ELSE t.loads,
     req |-> Request("tab2",
                     Except(IF prep # None THEN [shown |-> <<>>, exc |-> prep]
                            ELSE IF t.raised THEN [shown |-> <<>>, exc |-> t.exc]
                            ELSE Render("Transcription complete!", t.text, fault),
                            "Transcription failed: "),
                     IF prep # None THEN <<>> ELSE t.calls,
                     IF bound THEN {wav_path} ELSE {},
                     IF bound THEN None ELSE NameErrorWavPath)]

LiveCaptureRecord(fault, text) ==
    LiveCaptureRecordTry(Tmp("tab2", ".wav"), fault \notin {"convert", "concat", "tmpfile"},
                         PrepExc(fault),
                         TranscribeAudio(Tmp("tab2", ".wav"), fault, text), fault)

\* recordstreamlit.py: the frames are concatenated, the temporary file is
\* created and written before the try; only the transcription is inside it.
LiveCaptureStreamlitTry(tmp_wav_path, created, prep, t, fault) ==
    IF prep # None
    THEN [files |-> files \cup created, cache |-> cache, loads |-> loads,
          req |-> Request("tab2", <<>>, <<>>, created, prep)]
    ELSE [files |-> (files \cup created) \ {tmp_wav_path},
          cache |-> t.cache, loads |-> t.loads,
          req |-> Request("tab2",
                          Except(IF t.raised THEN [shown |-> <<>>, exc |-> t.exc]
                                 ELSE Render("Transcription complete!", t.text, fault),
                                 "Transcription failed: "),
                          t.calls, created, None)]

LiveCaptureStreamlit(fault, text) ==
    LiveCaptureStreamlitTry(Tmp("tab2", ".wav"),
                            IF fault \in {"convert", "concat", "tmpfile"} THEN {}
                            ELSE {Tmp("tab2", ".wav")},
                            PrepExc(fault),
                            TranscribeAudio(Tmp("tab2", ".wav"), fault, text), fault)

LiveCapture(o) ==
    IF rev = "record" THEN LiveCaptureRecord(o.fault, o.text)
    ELSE LiveCaptureStreamlit(o.fault, o.text)

\* audio_frames = get_frames(timeout=duration); if audio_frames: ... else: warning
Tab2Capture ==
    /\ pc = "tab2_handler"
    /\ IF ~widget
       THEN /\ pc' = NextAfterTab2
            /\ UNCHANGED <<files, cache, loads, req>>
       ELSE \E audio_frames \in 0..MaxFrames :
            IF audio_frames = 0
            THEN /\ req' = Request("tab2",
                                   <<Msg("warning", "No audio frames captured.", None)>>,
                                   <<>>, {}, None)
                 /\ pc' = NextAfterTab2
                 /\ UNCHANGED <<files, cache, loads>>
            ELSE \E o \in Tab2Outcomes : \E h \in {LiveCapture(o)} :
                    /\ files' = h.files
                    /\ cache' = h.cache
                    /\ loads' = h.loads
                    /\ req' = h.req
                    /\ pc' = IF h.req.exc # None THEN "crashed" ELSE NextAfterTab2
    /\ UNCHANGED <<rev, ffmpegPresent, run, startupError, language, model_size, rendered,
                   cookieUploaded, audio_path, widget, video_url>>

\* ------------------------------------------- tab3: cookies upload (record.py)
\* if uploaded_cookies: write the upload to "cookies.txt" in the working directory
Tab3Cookies ==
    /\ pc = "tab3_cookies"
    /\ rev = "record"
    /\ rendered' = rendered \cup {"tab3"}
    /\ \E uploaded_cookies \in BOOLEAN :
        IF uploaded_cookies
        THEN /\ files' = files \cup {CookiesTxt}
             /\ cookieUploaded' = TRUE
             /\ req' = Request("tab3_cookies",
                               <<Msg("success", "Cookies uploaded successfully!", None)>>,
                               <<>>, {CookiesTxt}, None)
        ELSE /\ req' = Idle("tab3_cookies")
             /\ UNCHANGED <<files, cookieUploaded>>
    /\ pc' = "tab3"
    /\ UNCHANGED <<rev, ffmpegPresent, run, startupError, language, model_size,
                   audio_path, cache, loads, widget, video_url>>

\* video_file = st.file_uploader(...); video_url = st.text_input(...)
\* (record.py never reads video_url: its YouTube handler is commented out)
Tab3Inputs ==
    /\ pc = "tab3"
    /\ rendered' = rendered \cup {"tab3"}
    /\ widget' \in BOOLEAN
    /\ video_url' \in (IF rev = "record" THEN {FALSE} ELSE BOOLEAN)
    /\ req' = Idle("tab3")
    /\ pc' = "tab3_video"
    /\ UNCHANGED <<rev, ffmpegPresent, run, startupError, language, model_size,
                   cookieUploaded, audio_path, files, cache, loads>>

\* ------------------------------------------------ extract_audio_from_video
\* The .wav file is created (delete=False) before ffmpeg runs.  rc, stderr:
\* exit status and diagnostic output of ffmpeg.
FfmpegFailed(detail) == Exc("RuntimeError", "FFmpeg failed:\n", detail)

\* record.py: result.stderr.decode(errors='ignore')
FfmpegErrorRecord(stderr) == FfmpegFailed(DecodeIgnore(stderr))
\* recordstreamlit.py: result.stderr.decode()
FfmpegErrorStreamlit(stderr) ==
    IF DecodeRaises(stderr) THEN UnicodeDecodeError ELSE FfmpegFailed(stderr)

FfmpegCall(video_path, wav, rc, stderr) ==
    [op |-> "ffmpeg", input |-> video_path, output |-> wav, rc |-> rc, stderr |-> stderr]

extract_audio_from_video(video_path, wav, rc, stderr) ==
    IF ~ffmpegPresent
    THEN [raised |-> TRUE, exc |-> FfmpegNotFound, audio_path |-> Unbound,
          created |-> {wav}, calls |-> <<>>]
    ELSE IF rc # 0
    THEN [raised |-> TRUE,
          exc |-> IF rev = "record" THEN FfmpegErrorRecord(stderr)
                  ELSE FfmpegErrorStreamlit(stderr),
          audio_path |-> Unbound, created |-> {wav},
          calls |-> <<FfmpegCall(video_path, wav, rc, stderr)>>]
    ELSE [raised |-> FALSE, exc |-> None, audio_path |-> wav, created |-> {wav},
          calls |-> <<FfmpegCall(video_path, wav, rc, stderr)>>]

\* the part of the try block shared by the video and the YouTube handler:
\* extract (e), transcribe (t), render; returns what except/finally need
PipelineTry(e, t, fault) ==
    [shown |-> Except(IF e.raised THEN [shown |-> <<>>, exc |-> e.exc]
                      ELSE IF t.raised THEN [shown |-> <<>>, exc |-> t.exc]
                      ELSE Render("Video Transcription Complete!", t.text, fault),
                      "Error: "),
     calls |-> IF e.raised THEN e.calls ELSE e.calls \o t.calls,
     created |-> e.created,
     assigned |-> ~e.raised,
     audio_path |-> e.audio_path,
     cache |-> IF e.raised THEN cache ELSE t.cache,
     loads |-> IF e.raised THEN loads ELSE t.loads]

PipelineFrom(e, fault, text) ==
    PipelineTry(e, TranscribeAudio(e.audio_path, fault, text), fault)

Pipeline(video_path, wav, rc, stderr, fault, text) ==
    PipelineFrom(extract_audio_from_video(video_path, wav, rc, stderr), fault, text)

\* value of the name audio_path when the finally clause runs.  record.py
\* sets audio_path = None before the try; recordstreamlit.py tests
\* 'audio_path' in locals(), so an earlier handler's value is still seen.
AudioPathAtFinally(p, resetFirst) ==
    IF p.assigned THEN p.audio_path
    ELSE IF resetFirst THEN Unbound
    ELSE audio_path

\* ffmpeg exits non-zero with some diagnostic output (read only then), or
\* exits zero and the model is called
PipelineOutcomes ==
    {[rc |-> 1, stderr |-> s, fault |-> "none", text |-> <<>>] : s \in StderrSet}
    \cup {[rc |-> 0, stderr |-> <<>>, fault |-> m.fault, text |-> m.text] : m \in ModelOutcomes}
\* without the binary only the FileNotFoundError path exists
PipelineEnv ==
    IF ffmpegPresent THEN PipelineOutcomes
    ELSE {[rc |-> 1, stderr |-> <<>>, fault |-> "none", text |-> <<>>]}

\* ------------------------------------------------- tab3: uploaded video
\* if video_file: write the upload to video_path; try: pipeline;
\* except: st.error; finally: remove video_path and, if known, audio_path
VideoFinally(tab, shown, calls, video_path, written, p, ap) ==
    [files |-> ((files \cup written \cup p.created) \ {video_path}) \ {ap},
     audio_path |-> ap, cache |-> p.cache, loads |-> p.loads,
     req |-> Request(tab, shown \o p.shown, calls \o p.calls, written \cup p.created, None)]

UploadedVideoTry(video_path, p) ==
    VideoFinally("tab3_video", <<>>, <<>>, video_path, {video_path}, p,
                 AudioPathAtFinally(p, rev = "record"))

UploadedVideo(o) ==
    UploadedVideoTry(Tmp("tab3", ".mp4"),
                     Pipeline(Tmp("tab3", ".mp4"), Tmp("tab3", ".wav"),
                              o.rc, o.stderr, o.fault, o.text))

Tab3Video ==
    /\ pc = "tab3_video"
    /\ IF ~widget
       THEN UNCHANGED <<files, cache, loads, audio_path, req>>
       ELSE \E o \in PipelineEnv : \E h \in {UploadedVideo(o)} :
               /\ files' = h.files
               /\ audio_path' = h.audio_path
               /\ cache' = h.cache
               /\ loads' = h.loads
               /\ req' = h.req
    /\ pc' = IF rev = "record" THEN "done" ELSE "tab3_youtube"
    /\ UNCHANGED <<rev, ffmpegPresent, run, startupError, language, model_size, rendered,
                   cookieUploaded, widget, video_url>>

\* --------------------------------------- tab3: YouTube (recordstreamlit.py)
YtWarning == Msg("warning", "Downloading from YouTube requires 'yt-dlp' installed.", None)

\* if video_url: st.warning(...); if st.button(...)
Tab3YouTubeButton ==
    /\ pc = "tab3_youtube"
    /\ rev = "recordstreamlit"
    /\ IF video_url
       THEN /\ widget' \in BOOLEAN
            /\ req' = [Idle("tab3_youtube") EXCEPT !.shown = <<YtWarning>>]
       ELSE /\ widget' = FALSE
            /\ req' = Idle("tab3_youtube")
    /\ pc' = "tab3_youtube_handler"
    /\ UNCHANGED <<rev, ffmpegPresent, run, startupError, language, model_size, rendered,
                   cookieUploaded, audio_path, files, cache, loads, video_url>>

\* subprocess.run('yt-dlp ...', shell=True, check=True): a non-zero status
\* (also the shell's status for a missing binary) raises CalledProcessError,
\* whose text is the command and the status; the output of yt-dlp is not
\* captured.  dl: "fail" non-zero status; "ok" the file was written;
\* "small" a truncated file was written; "nofile" status 0 and no file.
CalledProcessError == Exc("CalledProcessError", "Command returned non-zero exit status", <<>>)

\* what yt-dlp and then the pipeline do
YouTubeEnv ==
    {[dl |-> "fail", yt |-> y, o |-> [rc |-> 1, stderr |-> <<>>, fault |-> "none", text |-> <<>>]]
        : y \in StderrSet}
    \cup {[dl |-> "ok", yt |-> <<>>, o |-> o] : o \in PipelineEnv}
    \cup {[dl |-> "small", yt |-> y, o |-> o] : y \in StderrSet \ {<<>>}, o \in PipelineEnv}
    \* ffmpeg cannot succeed on an input file that does not exist
    \cup {[dl |-> "nofile", yt |-> y, o |-> o]
            : y \in StderrSet \ {<<>>}, o \in {x \in PipelineEnv : x.rc # 0}}

YtCall(dl, ytStderr) ==
    [op |-> "yt-dlp", rc |-> IF dl = "fail" THEN 1 ELSE 0, stderr |-> ytStderr, output |-> dl]

YouTubeTry(dl, ytStderr, video_path, p) ==
    IF dl = "fail"
    THEN [files |-> files, audio_path |-> audio_path, cache |-> cache, loads |-> loads,
          req |-> Request("tab3_youtube",
                          <<YtWarning, Msg("error", "YouTube download failed:\n",
                                           CalledProcessError)>>,
                          <<YtCall(dl, ytStderr)>>, {}, None)]
    ELSE VideoFinally("tab3_youtube", <<YtWarning>>, <<YtCall(dl, ytStderr)>>, video_path,
                      IF dl \in {"ok", "small"} THEN {video_path} ELSE {}, p,
                      AudioPathAtFinally(p, FALSE))

YouTube(dl, ytStderr, o) ==
    YouTubeTry(dl, ytStderr, Tmp("yt", ".mp4"),
               Pipeline(Tmp("yt", ".mp4"), Tmp("yt", ".wav"), o.rc, o.stderr, o.fault, o.text))

Tab3YouTube ==
    /\ pc = "tab3_youtube_handler"
    /\ IF ~widget
       THEN UNCHANGED <<files, cache, loads, audio_path, req>>
       ELSE \E y \in YouTubeEnv : \E h \in {YouTube(y.dl, y.yt, y.o)} :
               /\ files' = h.files
               /\ audio_path' = h.audio_path
               /\ cache' = h.cache
               /\ loads' = h.loads
               /\ req' = h.req
    /\ pc' = "done"
    /\ UNCHANGED <<rev, ffmpegPresent, run, startupError, language, model_size, rendered,
                   cookieUploaded, widget, video_url>>

\* ------------------------------------- download_youtube_video (record.py)
\* Defined in record.py but called by no handler (the YouTube block of that
\* revision is commented out).  hasYtDlp: shutil.which finds the binary;
\* rc, stderr: exit status and captured output (text=True) of yt-dlp;
\* exists, size: the output file afterwards.
MinVideoBytes == 50000
download_youtube_video(hasYtDlp, rc, stderr, exists, size) ==
    IF ~hasYtDlp
    THEN [raised |-> TRUE, exc |-> Exc("RuntimeError", "'yt-dlp' not found.", <<>>)]
    ELSE IF rc # 0
    THEN [raised |-> TRUE, exc |-> Exc("RuntimeError", "yt-dlp error:\n", stderr)]
    ELSE IF ~exists \/ size < MinVideoBytes
    THEN [raised |-> TRUE, exc |-> Exc("RuntimeError", "YouTube download failed.", <<>>)]
    ELSE [raised |-> FALSE, exc |-> None]


\* ------------------------------------------------------------------ rerun
\* A user interaction (or an uncaught exception followed by one) starts the
\* script again in a fresh namespace; files and the resource cache persist.
Rerun ==
    /\ pc \in {"done", "crashed"}
    /\ run < MaxRuns
    /\ run' = run + 1
    /\ pc' = "check_ffmpeg"
    /\ startupError' = FALSE
    /\ language' = "auto"
    /\ model_size' = "small"
    /\ rendered' = {}
    /\ cookieUploaded' = FALSE
    /\ audio_path' = Unbound
    /\ widget' = FALSE
    /\ video_url' = FALSE
    /\ req' = Idle("none")
    /\ UNCHANGED <<rev, ffmpegPresent, files, cache, loads>>

Next ==
    \/ CheckFfmpeg
    \/ Sidebar
    \/ Tab1Upload
    \/ Tab1Transcribe
    \/ Tab2Stream
    \/ Tab2Capture
    \/ Tab3Cookies
    \/ Tab3Inputs
    \/ Tab3Video
    \/ Tab3YouTubeButton
    \/ Tab3YouTube
    \/ Rerun

Spec == Init /\ [][Next]_vars

\* ================================================================== claims
\* what the last handler showed and called
ShownIdx == 1..Len(req.shown)
CallIdx == 1..Len(req.calls)
SuccessShown ==
    \E i \in ShownIdx : req.shown[i].w = "success"
        /\ req.shown[i].msg \in {"Transcription complete!", "Video Transcription Complete!"}
NoSpeechShown ==
    \E i \in ShownIdx : req.shown[i].w = "warning" /\ req.shown[i].msg = "No speech detected."
FailureShown == \E i \in ShownIdx : req.shown[i].w = "error"
ErrorShownWith(prefix) ==
    \E i \in ShownIdx : req.shown[i].w = "error" /\ req.shown[i].e.prefix = prefix
Called(op) == \E i \in CallIdx : req.calls[i].op = op
Leaked == req.tmp \cap files

\* C1: when the uploaded-video handler finishes after ffmpeg ran (it exited
\* zero and the model returned or raised, or it exited non-zero), neither the
\* temporary video file nor the temporary .wav file exists.
C1_VideoTempFilesReleased ==
    (req.active /\ req.tab = "tab3_video" /\ Called("ffmpeg")) => Leaked = {}

\* C2: when the audio-upload or the live-capture handler finishes, on any
\* exit path, the temporary audio file the request created does not exist.
C2_AudioTempFileReleased ==
    (req.active /\ req.tab \in {"tab1", "tab2"}) => Leaked = {}

\* C3: after a script run in which a cookie file was uploaded, cookies.txt
\* does not exist.
C3_CookiesReleased ==
    (pc \in {"done", "crashed"} /\ cookieUploaded) => CookiesTxt \notin files

\* C4: whenever ffmpeg exits non-zero the request shows an error that carries
\* the "FFmpeg failed" text with ffmpeg's stderr text, and the model is not
\* invoked.
C4_TranscoderFailureReported ==
    \A i \in CallIdx :
        (req.calls[i].op = "ffmpeg" /\ req.calls[i].rc # 0) =>
            /\ \E j \in ShownIdx :
                /\ req.shown[j].w = "error"
                /\ req.shown[j].e.prefix = "FFmpeg failed:\n"
                /\ req.shown[j].e.detail = DecodeIgnore(req.calls[i].stderr)
            /\ ~Called("transcribe")

\* C5: when the model returns a text that is empty or only whitespace (and
\* rendering raises nothing), the request shows the "no speech detected"
\* outcome and neither the success nor the failure outcome.
C5_NoSpeechOutcome ==
    \A i \in CallIdx :
        (/\ req.calls[i].op = "transcribe"
         /\ ~req.calls[i].raised
         /\ strip(req.calls[i].text) = <<>>
         /\ ~ErrorShownWith(RenderError.prefix))
        => (NoSpeechShown /\ ~SuccessShown /\ ~FailureShown)

\* C6: whenever yt-dlp fails for a YouTube request (non-zero status, or a
\* missing or too small output file), the request shows an error carrying the
\* downloader's diagnostic text and neither ffmpeg nor the model is invoked.
C6_DownloaderFailureReported ==
    \A i \in CallIdx :
        (req.calls[i].op = "yt-dlp" /\ req.calls[i].output # "ok") =>
            /\ \E j \in ShownIdx :
                /\ req.shown[j].w = "error"
                /\ req.shown[j].e.detail = DecodeIgnore(req.calls[i].stderr)
            /\ ~Called("ffmpeg")
            /\ ~Called("transcribe")

\* C7: with the ffmpeg binary missing, check_ffmpeg reports the error and
\* returns: the run is not ended by it, a run that reaches its end has
\* rendered every tab, and an audio-upload or live-capture request whose
\* own steps raise nothing calls transcribe_audio and reaches the model.
PrepFailed ==
    \/ req.exc # None
    \/ \E e \in {FrameError, ConcatError, TmpFileError, WriteError} : ErrorShownWith(e.prefix)
NoFrames ==
    \E i \in ShownIdx : req.shown[i].msg = "No audio frames captured."
C7_MissingTranscoderNotFatal ==
    ~ffmpegPresent =>
        /\ (pc # "check_ffmpeg" => startupError)
        /\ ~(req.tab = "startup" /\ req.exc # None)
        /\ (pc = "done" => rendered = {"tab1", "tab2", "tab3"})
        /\ (req.active /\ req.tab = "tab1"
                => (Called("transcribe") \/ ErrorShownWith(LoadError.prefix)))
        /\ (req.active /\ req.tab = "tab2" /\ ~NoFrames /\ ~PrepFailed
                => (Called("transcribe") \/ ErrorShownWith(LoadError.prefix)))
C7_Witness ==
    /\ ~ffmpegPresent
    /\ startupError
    /\ req.active /\ req.tab = "tab2"
    /\ rendered = {"tab1", "tab2"}
    /\ \E i \in CallIdx : req.calls[i].op = "transcribe" /\ ~req.calls[i].raised

\* C8: whisper.load_model returns a model at most once per size; a loaded
\* model stays cached (cache[s] is the one instance ever loaded); every call
\* of model.transcribe uses the cached instance of the selected size.
C8_ModelCachedPerSize ==
    /\ \A s \in Sizes : loads[s] <= 1 /\ cache[s] = loads[s]
    /\ \A i \in CallIdx :
        req.calls[i].op = "transcribe" =>
            /\ req.calls[i].model = <<model_size, 1>>
            /\ cache[model_size] = 1
C8_Witness ==
    /\ run = 2
    /\ loads["small"] = 1
    /\ cache["small"] = 1
    /\ model_size = "base"
    /\ req.tab = "tab3_video"
    /\ \E i \in CallIdx : req.calls[i].op = "transcribe" /\ req.calls[i].model = <<"base", 1>>

\* C9: model.transcribe gets a language option exactly when the selected
\* language is not "auto", its value is the selected language, and the path
\* is the request's audio file.
C9_LanguageOption ==
    \A i \in CallIdx :
        req.calls[i].op = "transcribe" =>
            /\ (language = "auto" => req.calls[i].options = {})
            /\ (language # "auto" => req.calls[i].options = {<<"language", language>>})
            /\ req.calls[i].path \in req.tmp
C9_Witness ==
    /\ language = "en"
    /\ req.tab = "tab3_video"
    /\ \E i \in CallIdx :
        /\ req.calls[i].op = "transcribe"
        /\ req.calls[i].options = {<<"language", "en">>}
        /\ req.calls[i].path = Tmp("tab3", ".wav")

\* C10: a live-capture request of record.py with frames captured ends without
\* an uncaught exception, and shows "Transcription failed" when a step raised.
C10_LiveCaptureHandled ==
    (rev = "record" /\ req.active /\ req.tab = "tab2" /\ ~NoFrames) =>
        /\ req.exc = None
        /\ pc # "crashed"
        /\ (\E i \in ShownIdx : req.shown[i].w = "text_area")
            \/ (\E i \in ShownIdx : req.shown[i].w = "error"
                    /\ req.shown[i].msg = "Transcription failed: ")

====
